---- MODULE Spec2Model ----
(***************************************************************************)
(* Model of the multi-fidelity deep GP benchmarking notebook                *)
(* (emukit/examples/multi_fidelity_dgp/benchmarking_examples.ipynb).       *)
(*                                                                         *)
(* The notebook is glue code: a registry of benchmark functions, a data    *)
(* generator, a loop over four model adapters, a metric calculator, a      *)
(* table printer and a driver that loops over five seeds.  The glue is     *)
(* modelled statement by statement.  The libraries it calls (numpy's       *)
(* global random generator, the Latin design, the test functions, the      *)
(* model adapters, sklearn/scipy metrics) are modelled by small            *)
(* deterministic stand-ins that keep what the glue relies on: the global   *)
(* generator is one piece of state that np.random.seed overwrites and      *)
(* every draw advances, and every array operation is floating point        *)
(* arithmetic that rounds its result.                                      *)
(***************************************************************************)
EXTENDS Integers, Sequences, FiniteSets, TLC

(***************************************************************************)
(* Bounds of the model.                                                    *)
(***************************************************************************)
\* Number of significant bits of a floating point number (53 in numpy's
\* float64).  Every arithmetic result is rounded to this many bits, to
\* nearest, ties to even.
Precision == 5
\* Number of input dimensions of the sampled parameter space.
Dim == 1
\* Number of test points test_function asks generate_data for (the notebook
\* passes 1000).
NTestPoints == 2
\* Number of times the benchmark cell is executed in one notebook session.
MaxBenchmarks == 2
\* The global generator's state at start-up is one of 0 .. MaxInitRng.
MaxInitRng == 1
\* The global generator has states 0 .. RngModulus - 1.
RngModulus == 1024
\* A model's optimize() consumes between 1 and MaxDraws random numbers.
MaxDraws == 1

(***************************************************************************)
(* Floating point numbers.  A number is <<m, e>>, standing for m * 2^e,    *)
(* with m = 0 /\ e = 0 for zero and m odd otherwise, so that equal numbers *)
(* have equal representations.  |m| < 2^Precision.                         *)
(***************************************************************************)
\* 2^n, and 1 for a negative n.
Pow2(n) == IF n <= 0 THEN 1 ELSE 2 ^ n

Abs(n) == IF n < 0 THEN -n ELSE n

Sign(n) == IF n < 0 THEN -1 ELSE 1

\* Number of bits of a natural number (0 for 0).
RECURSIVE BitLen(_)
BitLen(n) == IF n = 0 THEN 0 ELSE 1 + BitLen(n \div 2)

\* m * 2^e with the trailing zero bits of m moved into the exponent.
RECURSIVE Canon(_, _)
Canon(m, e) ==
    IF m = 0 THEN <<0, 0>>
    ELSE IF m % 2 = 0 THEN Canon(m \div 2, e + 1)
    ELSE <<m, e>>

\* m * 2^e rounded to Precision significant bits, to nearest, ties to even.
Round(m, e) ==
    LET a == Abs(m)
        k == BitLen(a) - Precision
    IN  IF k <= 0 THEN Canon(m, e)
        ELSE LET q    == a \div Pow2(k)
                 r    == a % Pow2(k)
                 half == Pow2(k - 1)
                 up   == r > half \/ (r = half /\ q % 2 = 1)
                 q2   == IF up THEN q + 1 ELSE q
             IN  Canon(Sign(m) * q2, e + k)

FZero == <<0, 0>>

FromInt(n) == Round(n, 0)

FNeg(a) == <<-a[1], a[2]>>

FMul(a, b) == Round(a[1] * b[1], a[2] + b[2])

\* Exponent of the bit above a number's leading bit.
Top(a) == a[2] + BitLen(Abs(a[1]))

\* a + b.  When one operand lies wholly below the other's rounding position
\* it only decides the direction of rounding, and is replaced by a number of
\* the same sign that does the same.
FAdd(a, b) ==
    IF a[1] = 0 THEN b
    ELSE IF b[1] = 0 THEN a
    ELSE LET big   == IF Top(a) >= Top(b) THEN a ELSE b
             small == IF Top(a) >= Top(b) THEN b ELSE a
             low   == Top(big) - Precision - 3
             s     == IF Top(small) <= low
                      THEN <<Sign(small[1]), low - 1>>
                      ELSE small
             e     == IF big[2] < s[2] THEN big[2] ELSE s[2]
         IN  Round(big[1] * Pow2(big[2] - e) + s[1] * Pow2(s[2] - e), e)

FSub(a, b) == FAdd(a, FNeg(b))

\* a / b for b # 0: the quotient is computed to Precision + 2 bits and a
\* sticky bit that records a non-zero remainder.
FDiv(a, b) ==
    IF a[1] = 0 THEN FZero
    ELSE LET s   == Precision + 2 + BitLen(Abs(b[1]))
             num == Abs(a[1]) * Pow2(s)
             q   == num \div Abs(b[1])
             r   == num % Abs(b[1])
             q2  == 2 * q + (IF r = 0 THEN 0 ELSE 1)
         IN  Round(Sign(a[1]) * Sign(b[1]) * q2, a[2] - b[2] - s - 1)

\* Largest r with r * r <= n.
RECURSIVE ISqrtFrom(_, _, _)
ISqrtFrom(n, lo, hi) ==
    IF lo >= hi THEN lo
    ELSE LET mid == (lo + hi + 1) \div 2
         IN  IF mid * mid <= n THEN ISqrtFrom(n, mid, hi)
             ELSE ISqrtFrom(n, lo, mid - 1)

ISqrt(n) == ISqrtFrom(n, 0, Pow2((BitLen(n) + 1) \div 2))

\* Square root of a >= 0, correctly rounded.
FSqrt(a) ==
    IF a[1] <= 0 THEN FZero
    ELSE LET want == 2 * Precision + 4
             t0   == IF BitLen(a[1]) >= want THEN 0 ELSE want - BitLen(a[1])
             t    == IF (a[2] - t0) % 2 = 0 THEN t0 ELSE t0 + 1
             big  == a[1] * Pow2(t)
             r    == ISqrt(big)
             r2   == 2 * r + (IF r * r = big THEN 0 ELSE 1)
         IN  Round(r2, (a[2] - t) \div 2 - 1)

(***************************************************************************)
(* Python values: str(), lists, dicts.                                     *)
(***************************************************************************)
\* A string is a sequence of one-character strings.
Digit(d) == <<SubSeq(<<"0","1","2","3","4","5","6","7","8","9">>, d + 1, d + 1)[1]>>

\* str(n) of a non-negative int.
RECURSIVE str_int(_)
str_int(n) == IF n < 10 THEN Digit(n) ELSE str_int(n \div 10) \o Digit(n % 10)

\* ", ".join of the elements' str().
RECURSIVE join_ints(_)
join_ints(l) ==
    IF Len(l) = 0 THEN <<>>
    ELSE IF Len(l) = 1 THEN str_int(l[1])
    ELSE str_int(l[1]) \o <<",", " ">> \o join_ints(Tail(l))

\* str(l) of a list of ints: "[80, 30, 10]".
str_list(l) == <<"[">> \o join_ints(l) \o <<"]">>

\* A dict is the sequence of its items [k, v] in insertion order; keys are
\* unique.  d[k] = v replaces the value of a key that is present and appends
\* a new item otherwise.
dict_new == <<>>

dict_has(d, k) == \E i \in 1..Len(d) : d[i].k = k

dict_set(d, k, v) ==
    IF dict_has(d, k)
    THEN [i \in 1..Len(d) |-> IF d[i].k = k THEN [k |-> k, v |-> v] ELSE d[i]]
    ELSE Append(d, [k |-> k, v |-> v])

dict_get(d, k) == d[CHOOSE i \in 1..Len(d) : d[i].k = k].v

dict_keys(d) == [i \in 1..Len(d) |-> d[i].k]

dict_values(d) == [i \in 1..Len(d) |-> d[i].v]

\* l[-1]
py_last(l) == l[Len(l)]

Min(a, b) == IF a < b THEN a ELSE b

\* Sum of a list of floats: numpy adds short lists left to right and splits
\* long ones in halves (pairwise summation).
RECURSIVE np_sum(_)
np_sum(l) ==
    IF Len(l) = 0 THEN FZero
    ELSE IF Len(l) <= 8
    THEN FAdd(np_sum(SubSeq(l, 1, Len(l) - 1)), l[Len(l)])
    ELSE LET h == Len(l) \div 2
         IN  FAdd(np_sum(SubSeq(l, 1, h)), np_sum(SubSeq(l, h + 1, Len(l))))

\* np.mean of a list of floats.
np_mean(l) == FDiv(np_sum(l), FromInt(Len(l)))

(***************************************************************************)
(* The process-global random generator (numpy.random).  Its state is a     *)
(* number; np.random.seed overwrites the state, a draw advances it.        *)
(***************************************************************************)
np_random_seed(seed) == seed % RngModulus

\* One draw maps state s to RngMul * s + RngInc; k draws map it to
\* A * s + B with <<A, B>> == RngPow(k).
rng_step(s) == (5 * s + 3) % RngModulus

RECURSIVE RngPow(_)
RngPow(k) ==
    IF k <= 0 THEN <<1, 0>>
    ELSE IF k % 2 = 1
    THEN LET h == RngPow(k - 1)
         IN  <<(5 * h[1]) % RngModulus, (5 * h[2] + 3) % RngModulus>>
    ELSE LET h == RngPow(k \div 2)
         IN  <<(h[1] * h[1]) % RngModulus, (h[1] * h[2] + h[2]) % RngModulus>>

\* The state after k draws.
Draw(s, k) == LET h == RngPow(k) IN (h[1] * s + h[2]) % RngModulus

\* The standard normal variate a generator state yields.
randn_value(s) == FromInt((s % 5) - 2)

(***************************************************************************)
(* The function registry.                                                  *)
(***************************************************************************)
\* The literals 0.05, 0.1 and 0.
Lit005 == FDiv(FromInt(5), FromInt(100))
Lit01 == FDiv(FromInt(1), FromInt(10))

borehole == [name |-> "borehole", y_scale |-> 100, noise_level |-> <<Lit005, Lit01>>,
             do_x_scaling |-> TRUE, num_data |-> <<60, 5>>,
    fcn |-> "multi_fidelity_borehole_function"]

branin == [name |-> "branin", y_scale |-> 1, noise_level |-> <<FZero, FZero, FZero>>,
           do_x_scaling |-> FALSE, num_data |-> <<80, 30, 10>>,
    fcn |-> "multi_fidelity_branin_function"]

currin == [name |-> "currin", y_scale |-> 1, noise_level |-> <<FZero, FZero>>,
           do_x_scaling |-> FALSE, num_data |-> <<12, 5>>,
    fcn |-> "multi_fidelity_currin_function"]

park == [name |-> "park", y_scale |-> 1, noise_level |-> <<FZero, FZero>>,
         do_x_scaling |-> FALSE, num_data |-> <<30, 5>>,
    fcn |-> "multi_fidelity_park_function"]

hartmann_3d == [name |-> "hartmann", y_scale |-> 1, noise_level |-> <<FZero, FZero, FZero>>,
                do_x_scaling |-> FALSE, num_data |-> <<80, 40, 20>>,
    fcn |-> "multi_fidelity_hartmann_3d"]

Registry == {borehole, branin, currin, park, hartmann_3d}

(***************************************************************************)
(* The emukit library the notebook calls: test functions, Latin design.    *)
(***************************************************************************)
\* Number of fidelity levels of the function a descriptor's factory returns
\* (the length of fcn.f).
NumFidelities(fcn_tuple) ==
    IF fcn_tuple.fcn \in {"multi_fidelity_branin_function", "multi_fidelity_hartmann_3d"}
    THEN 3 ELSE 2

RowSum(row) == np_sum(row)

\* fcn.f[i] (i counts from 0) at one input row: the value of fidelity i.
TestFunction(i, row) == FAdd(FMul(FromInt(i + 1), RowSum(row)), FromInt(1))

\* fcn.f[i](x) for an array x: one output per row.  A negative i counts from
\* the end of fcn.f.
fcn_f(fcn_tuple, i, x) ==
    LET k == IF i < 0 THEN NumFidelities(fcn_tuple) + i ELSE i
    IN  [r \in 1..Len(x) |-> TestFunction(k, x[r])]

\* LatinDesign(space).get_samples(n): n rows over the unit cube, each
\* dimension a permutation of the n strata centres drawn from the global
\* generator (one draw per dimension).
get_samples(n, rng) ==
    [r \in 1..n |->
        [d \in 1..Dim |->
            FDiv(FromInt(2 * ((r - 1 + Draw(rng, d)) % n) + 1), FromInt(2 * n))]]

(***************************************************************************)
(* generate_data                                                           *)
(***************************************************************************)
\* x.std(axis=0): per column, the square root of the mean squared deviation
\* from the column's mean.
np_std_axis0(x) ==
    [d \in 1..Len(x[1]) |->
        LET col  == [r \in 1..Len(x) |-> x[r][d]]
            mean == np_mean(col)
            dev2 == [r \in 1..Len(x) |->
                        FMul(FSub(col[r], mean), FSub(col[r], mean))]
        IN  FSqrt(np_mean(dev2))]

\* The scaling vector taken from the highest fidelity's samples.
compute_scalings_highest(X, do_x_scaling) ==
    IF do_x_scaling THEN np_std_axis0(py_last(X))
    ELSE [d \in 1..Len(X[1][1]) |-> FromInt(1)]

\* The scaling vector: the standard deviation of the lowest fidelity's
\* samples, or ones.
compute_scalings(X, do_x_scaling) ==
    IF do_x_scaling THEN np_std_axis0(X[1])
    ELSE [d \in 1..Len(X[1][1]) |-> FromInt(1)]

\* x / scalings, column by column.
divide_rows(x, scalings) ==
    [r \in 1..Len(x) |-> [d \in 1..Len(x[r]) |-> FDiv(x[r][d], scalings[d])]]

\* x * scalings, column by column.
multiply_rows(x, scalings) ==
    [r \in 1..Len(x) |-> [d \in 1..Len(x[r]) |-> FMul(x[r][d], scalings[d])]]

\* One element of  y /= y_scale + std_noise * np.random.randn(...).
scale_y(y, y_scale, std_noise, eps) ==
    FDiv(y, FAdd(FromInt(y_scale), FMul(std_noise, eps)))

\* The function whose outputs are the test targets: fcn.f[-1].
test_fidelity == -1

\* The fidelity column holding the number of fidelities, not the highest index.
i_highest_fidelity_count(fcn_tuple) ==
    FMul(FromInt(Len(fcn_tuple.num_data)), FromInt(1))

\* The value of the fidelity column appended to the test inputs.
i_highest_fidelity(fcn_tuple) ==
    FMul(FromInt(Len(fcn_tuple.num_data) - 1), FromInt(1))

\* The noise variates randn(n, 1) yields with the generator in state rng.
randn(n, rng) == [j \in 1..n |-> randn_value(Draw(rng, j))]

(***************************************************************************)
(* The model adapters (baseline_model_wrappers, multi_fidelity_deep_gp):   *)
(* objects with a name, optimize() and predict(x) -> (mean, variance).     *)
(***************************************************************************)
\* A freshly constructed adapter of class cls: not fitted.
NewModel(cls, name) == [cls |-> cls, name |-> name, optimized |-> 0, predicted |-> 0]

HighFidelityGp == NewModel(1, "hf_gp")

LinearAutoRegressiveModel == NewModel(2, "ar1")

NonLinearAutoRegressiveModel == NewModel(3, "nargp")

\* MultiFidelityDeepGP(X, Y, n_iter=5000): the class itself sets no name.
MultiFidelityDeepGP == NewModel(4, "")

\* model.predict(x_test) of a model trained on (X, Y): a mean and a variance
\* per test point.  The fit differs from class to class.
predict_mean(model, Y, x_test) ==
    [j \in 1..Len(x_test) |->
        FAdd(FMul(FromInt(model.cls), x_test[j][1]),
             FMul(FromInt(model.optimized), py_last(Y)[1]))]

predict_var(model, x_test) ==
    [j \in 1..Len(x_test) |-> <<1, 0 - model.cls>>]

(***************************************************************************)
(* calculate_metrics and the sklearn / scipy functions it calls.           *)
(***************************************************************************)
Sq(a) == FMul(a, a)

\* sklearn.metrics.mean_squared_error
mean_squared_error(y_true, y_pred) ==
    np_mean([j \in 1..Len(y_true) |-> Sq(FSub(y_true[j], y_pred[j]))])

\* sklearn.metrics.r2_score: 1 - SS_res / SS_tot.
r2_score(y_true, y_pred) ==
    LET mean   == np_mean(y_true)
        ss_res == np_sum([j \in 1..Len(y_true) |-> Sq(FSub(y_true[j], y_pred[j]))])
        ss_tot == np_sum([j \in 1..Len(y_true) |-> Sq(FSub(y_true[j], mean))])
    IN  IF ss_tot[1] = 0 THEN (IF ss_res[1] = 0 THEN FromInt(1) ELSE FZero)
        ELSE FSub(FromInt(1), FDiv(ss_res, ss_tot))

\* The natural logarithm of a > 0, to its leading bit: ln 2 times the
\* exponent of a's leading bit.
FLn(a) == FMul(FromInt(Top(a) - 1), FDiv(FromInt(693), FromInt(1000)))

\* scipy.stats.norm.logpdf(y, loc, scale) = -z^2 / 2 - ln(scale) - ln(sqrt(2 pi)),
\* z = (y - loc) / scale.
norm_logpdf(y, loc, scale) ==
    LET z == FDiv(FSub(y, loc), scale)
    IN  FSub(FSub(FNeg(FDiv(Sq(z), FromInt(2))), FLn(scale)),
             FDiv(FromInt(919), FromInt(1000)))

calculate_metrics(y_test, y_mean_prediction, y_var_prediction) ==
    LET r2   == r2_score(y_test, y_mean_prediction)
        rmse == FSqrt(mean_squared_error(y_test, y_mean_prediction))
        mnll == FDiv(FNeg(np_sum([j \in 1..Len(y_test) |->
                        norm_logpdf(y_test[j], y_mean_prediction[j],
                                    FSqrt(y_var_prediction[j]))])),
                     FromInt(Len(y_test)))
    IN  [r2 |-> r2, rmse |-> rmse, mnll |-> mnll]

(***************************************************************************)
(* print_metrics                                                           *)
(***************************************************************************)
metric_names == <<"r2", "mnll", "rmse">>

\* print_metrics showing the last run instead of the mean over the runs.
print_metrics_last_run(metrics) ==
    LET last        == py_last(dict_values(metrics))
        model_names == dict_keys(last)
    IN  [n \in 1..Len(model_names) |->
            <<model_names[n]>> \o
            [k \in 1..Len(metric_names) |->
                dict_get(last, model_names[n])[metric_names[k]]]]

\* The rows print_metrics adds to the table: the model's name followed by
\* the mean of each metric over the runs in metrics.
print_metrics(metrics) ==
    LET model_names == dict_keys(dict_values(metrics)[1])
    IN  [n \in 1..Len(model_names) |->
            <<model_names[n]>> \o
            [k \in 1..Len(metric_names) |->
                np_mean([r \in 1..Len(metrics) |->
                    dict_get(dict_values(metrics)[r], model_names[n])[metric_names[k]]])]]

(***************************************************************************)
(* do_benchmark, test_function, benchmark_models                            *)
(***************************************************************************)
seeds == <<123, 184, 202, 289, 732>>

\* run_name with the seed left out.
run_name_without_seed(seed, fcn_tuple) == str_list(fcn_tuple.num_data)

run_name(seed, fcn_tuple) == str_int(seed) \o str_list(fcn_tuple.num_data)

\* Every model filed under one key.
record_key_constant(model) == "model"

\* The key benchmark_models files a model's metrics under.
record_key(model) == model.name

\* The list test_function builds: the deep GP is given its name after it
\* is constructed.
models_list ==
    <<HighFidelityGp, LinearAutoRegressiveModel, NonLinearAutoRegressiveModel,
      [MultiFidelityDeepGP EXCEPT !.name = "mf_dgp_fix_lf_mean"]>>

(***************************************************************************)
(* The state of one notebook session.                                      *)
(***************************************************************************)
VARIABLES
    pc,          \* the statement the kernel is at; "idle" between cells
    rng,         \* the state of numpy's global random generator
    nb_metrics,  \* the notebook-level list `metrics`
    table,       \* the rows of the table print_metrics printed last
    cells_run,   \* how many times the benchmark cell has been started
    fcn_tuple,   \* do_benchmark: its argument
    metrics,     \* do_benchmark: the dict of the runs' results
    i,           \* do_benchmark: the loop counter
    name_of_run, \* do_benchmark: run_name
    X,           \* generate_data / test_function: the training inputs
    Y,           \* generate_data / test_function: the training outputs
    scalings,    \* generate_data: the input scaling vector
    x_test,      \* generate_data / test_function / benchmark_models
    y_test,      \* generate_data / test_function / benchmark_models
    models,      \* test_function / benchmark_models: the list of adapters
    bm_metrics,  \* benchmark_models: its dict `metrics`
    k,           \* benchmark_models: the position of `model` in models
    y_mean,      \* benchmark_models
    y_var,       \* benchmark_models
    gd_log,      \* history, kept until the models are built: the values
                 \* generate_data computed on the way, and whether the
                 \* generator was still in a start-up state when
                 \* test_function seeded it
    trace,       \* history: the steps of the current do_benchmark call
    run_log,     \* history: what test_function returned, call by call
    seen         \* history: the data generated in the first run of the cell,
                 \* seed by seed, and the function it was generated for

vars == <<pc, rng, nb_metrics, table, cells_run, fcn_tuple, metrics, i, name_of_run,
          X, Y, scalings, x_test, y_test, models, bm_metrics, k, y_mean, y_var,
          gd_log, trace, run_log, seen>>

do_benchmark_locals == <<fcn_tuple, metrics, i, name_of_run>>

data_locals == <<X, Y, scalings, x_test, y_test>>

benchmark_models_locals == <<models, bm_metrics, k, y_mean, y_var>>

history == <<gd_log, trace, run_log, seen>>

None == <<>>

NoLog == [rng_fresh |-> None, drawn |-> None, f_args |-> None, f_out |-> None,
          eps |-> None, drawn_test |-> None, f_args_test |-> None,
          f_out_test |-> None]

seed == seeds[i + 1]

Event(ev, arg) == [ev |-> ev, arg |-> arg]

Init ==
    /\ pc = "idle"
    /\ rng \in 0..MaxInitRng
    /\ nb_metrics = <<>>
    /\ table = None
    /\ cells_run = 0
    /\ fcn_tuple = None
    /\ metrics = None
    /\ i = 0
    /\ name_of_run = None
    /\ X = None /\ Y = None /\ scalings = None /\ x_test = None /\ y_test = None
    /\ models = None /\ bm_metrics = None /\ k = 0 /\ y_mean = None /\ y_var = None
    /\ gd_log = NoLog
    /\ trace = <<>>
    /\ run_log = <<>>
    /\ seen = [fcn |-> None, data |-> <<>>]

\* The frames of test_function, generate_data and benchmark_models are gone.
DropCallee ==
    /\ X' = None /\ Y' = None /\ scalings' = None /\ x_test' = None /\ y_test' = None
    /\ models' = None /\ bm_metrics' = None /\ k' = 0 /\ y_mean' = None /\ y_var' = None

\* The cell `metrics = []; metrics.append(do_benchmark(f))` starts: its old
\* output is cleared, the list is emptied and do_benchmark runs up to its
\* loop.  A session in which the cell has failed is not continued.
RunCell(f) ==
    /\ pc = "idle"
    /\ cells_run < MaxBenchmarks
    /\ cells_run' = cells_run + 1
    /\ nb_metrics' = <<>>
    /\ fcn_tuple' = f
    /\ metrics' = dict_new
    /\ i' = 0
    /\ name_of_run' = None
    /\ pc' = "db_for"
    /\ trace' = <<>>
    /\ run_log' = <<>>
    /\ gd_log' = NoLog
    /\ table' = None
    /\ seen' = IF cells_run = 0 THEN [fcn |-> f.name, data |-> <<>>] ELSE seen
    /\ UNCHANGED <<rng, data_locals, benchmark_models_locals>>

\* for i, seed in enumerate(seeds): run_name = ...; test_function is called.
DB_Iterate ==
    /\ pc = "db_for"
    /\ i < Len(seeds)
    /\ name_of_run' = run_name(seed, fcn_tuple)
    /\ pc' = "tf_seed"
    /\ UNCHANGED <<rng, nb_metrics, table, cells_run, fcn_tuple, metrics, i,
                   data_locals, benchmark_models_locals, history>>

\* The loop is over: do_benchmark returns metrics and the cell appends it.
DB_Return ==
    /\ pc = "db_for"
    /\ i >= Len(seeds)
    /\ nb_metrics' = Append(nb_metrics, metrics)
    /\ fcn_tuple' = None /\ metrics' = None /\ i' = 0 /\ name_of_run' = None
    /\ pc' = "idle"
    /\ UNCHANGED <<rng, table, cells_run, data_locals, benchmark_models_locals, history>>

\* test_function without its np.random.seed(seed).
TF_Seed_Missing ==
    /\ pc = "tf_seed"
    /\ rng' = rng
    /\ trace' = Append(trace, Event("seed", seed))
    /\ gd_log' = [NoLog EXCEPT !.rng_fresh = rng \in 0..MaxInitRng]
    /\ pc' = "gd_sample"
    /\ UNCHANGED <<nb_metrics, table, cells_run, do_benchmark_locals, data_locals,
                   benchmark_models_locals, run_log, seen>>

\* np.random.seed(seed)
TF_Seed ==
    /\ pc = "tf_seed"
    /\ rng' = np_random_seed(seed)
    /\ trace' = Append(trace, Event("seed", seed))
    /\ gd_log' = [NoLog EXCEPT !.rng_fresh = rng \in 0..MaxInitRng]
    /\ pc' = "gd_sample"
    /\ UNCHANGED <<nb_metrics, table, cells_run, do_benchmark_locals, data_locals,
                   benchmark_models_locals, run_log, seen>>

\* generate_data: X = [latin.get_samples(n) for n in fcn_tuple.num_data]
GD_Sample ==
    /\ pc = "gd_sample"
    /\ X' = [n \in 1..Len(fcn_tuple.num_data) |->
                get_samples(fcn_tuple.num_data[n], Draw(rng, (n - 1) * Dim))]
    /\ rng' = Draw(rng, Len(fcn_tuple.num_data) * Dim)
    /\ gd_log' = [gd_log EXCEPT !.drawn = X']
    /\ pc' = "gd_scalings"
    /\ UNCHANGED <<nb_metrics, table, cells_run, do_benchmark_locals, Y, scalings,
                   x_test, y_test, benchmark_models_locals, trace, run_log, seen>>

\* generate_data: scalings = X[0].std(axis=0) or ones
GD_Scalings ==
    /\ pc = "gd_scalings"
    /\ scalings' = compute_scalings(X, fcn_tuple.do_x_scaling)
    /\ pc' = "gd_scale_x"
    /\ UNCHANGED <<rng, nb_metrics, table, cells_run, do_benchmark_locals, X, Y,
                   x_test, y_test, benchmark_models_locals, history>>

\* generate_data: for x in X: x /= scalings
GD_ScaleX ==
    /\ pc = "gd_scale_x"
    /\ X' = [n \in 1..Len(X) |-> divide_rows(X[n], scalings)]
    /\ pc' = "gd_evaluate"
    /\ UNCHANGED <<rng, nb_metrics, table, cells_run, do_benchmark_locals, Y, scalings,
                   x_test, y_test, benchmark_models_locals, history>>

\* generate_data: Y.append(fcn.f[i](x * scalings)) for every x of X
GD_Evaluate ==
    /\ pc = "gd_evaluate"
    /\ \E args \in {[n \in 1..Len(X) |-> multiply_rows(X[n], scalings)]} :
          /\ Y' = [n \in 1..Len(X) |-> fcn_f(fcn_tuple, n - 1, args[n])]
          /\ gd_log' = [gd_log EXCEPT !.f_args = args, !.f_out = Y']
    /\ pc' = "gd_scale_y"
    /\ UNCHANGED <<rng, nb_metrics, table, cells_run, do_benchmark_locals, X, scalings,
                   x_test, y_test, benchmark_models_locals, trace, run_log, seen>>

\* Number of rows of the first n arrays of a list.
RECURSIVE RowsBefore(_, _)
RowsBefore(l, n) == IF n <= 0 THEN 0 ELSE RowsBefore(l, n - 1) + Len(l[n])

\* A zip that stops one pair early.
zip_len_short(a, b) == Min(Len(a), Len(b)) - 1

\* Number of pairs zip(a, b) yields.
zip_len(a, b) == Min(Len(a), Len(b))

\* generate_data: for y, std_noise in zip(Y, noise_levels):
\*                    y /= y_scale + std_noise * np.random.randn(y.shape[0], 1)
GD_ScaleY ==
    /\ pc = "gd_scale_y"
    /\ \E eps \in {[n \in 1..zip_len(Y, fcn_tuple.noise_level) |->
                      randn(Len(Y[n]), Draw(rng, RowsBefore(Y, n - 1)))]} :
          /\ Y' = [n \in 1..Len(Y) |->
                     IF n <= Len(eps)
                     THEN [j \in 1..Len(Y[n]) |->
                              scale_y(Y[n][j], fcn_tuple.y_scale,
                                      fcn_tuple.noise_level[n], eps[n][j])]
                     ELSE Y[n]]
          /\ gd_log' = [gd_log EXCEPT !.eps = eps]
          /\ rng' = Draw(rng, RowsBefore(Y, Len(eps)))
    /\ pc' = "gd_test"
    /\ UNCHANGED <<nb_metrics, table, cells_run, do_benchmark_locals, X, scalings,
                   x_test, y_test, benchmark_models_locals, trace, run_log, seen>>

\* What generate_data returns.
Returned == [x_test |-> x_test, y_test |-> y_test, X |-> X, Y |-> Y]

\* generate_data: the test data, and the return to test_function.
GD_Test ==
    /\ pc = "gd_test"
    /\ \E drawn \in {get_samples(NTestPoints, rng)} :
       \E scaled \in {divide_rows(drawn, scalings)} :
       \E args \in {multiply_rows(scaled, scalings)} :
       \E out \in {fcn_f(fcn_tuple, test_fidelity, args)} :
          /\ y_test' = [j \in 1..Len(out) |-> FDiv(out[j], FromInt(fcn_tuple.y_scale))]
          /\ x_test' = [j \in 1..Len(scaled) |->
                           Append(scaled[j], i_highest_fidelity(fcn_tuple))]
          /\ gd_log' = [gd_log EXCEPT !.drawn_test = drawn, !.f_args_test = args,
                                      !.f_out_test = out]
    /\ rng' = Draw(rng, Dim)
    /\ trace' = Append(trace, Event("generate_data", seed))
    /\ pc' = "tf_models"
    /\ UNCHANGED <<nb_metrics, table, cells_run, do_benchmark_locals, X, Y, scalings,
                   benchmark_models_locals, run_log>>
    /\ seen' = IF cells_run = 1
               THEN [seen EXCEPT !.data = Append(@, Returned')]
               ELSE seen

\* test_function: the four adapters are constructed and benchmark_models is
\* entered.
TF_BuildModels ==
    /\ pc = "tf_models"
    /\ models' = models_list
    /\ bm_metrics' = dict_new
    /\ k' = 1
    /\ gd_log' = NoLog
    /\ pc' = "bm_optimize"
    /\ UNCHANGED <<rng, nb_metrics, table, cells_run, do_benchmark_locals, data_locals,
                   y_mean, y_var, trace, run_log, seen>>

\* An exception leaves benchmark_models, test_function, do_benchmark and the
\* cell: no frame catches it.
Raise(step) ==
    /\ pc' = "raised"
    /\ trace' = Append(trace, Event("raise", step))
    /\ fcn_tuple' = None /\ metrics' = None /\ i' = 0 /\ name_of_run' = None
    /\ DropCallee
    /\ UNCHANGED <<nb_metrics, table, cells_run, gd_log, run_log, seen>>

\* benchmark_models: model.optimize() returns, having drawn n random numbers.
BM_Optimize(n) ==
    /\ pc = "bm_optimize"
    /\ models' = [models EXCEPT ![k].optimized = @ + 1]
    /\ rng' = Draw(rng, n)
    /\ trace' = Append(trace, Event("optimize", models[k].name))
    /\ pc' = "bm_predict"
    /\ UNCHANGED <<nb_metrics, table, cells_run, do_benchmark_locals, data_locals,
                   bm_metrics, k, y_mean, y_var, gd_log, run_log, seen>>

\* benchmark_models catching the exception of optimize() and going on.
BM_OptimizeRaises_Swallowed ==
    /\ pc = "bm_optimize"
    /\ trace' = Append(trace, Event("raise", "optimize"))
    /\ pc' = "bm_predict"
    /\ UNCHANGED <<rng, nb_metrics, table, cells_run, do_benchmark_locals, data_locals,
                   benchmark_models_locals, gd_log, run_log, seen>>

\* benchmark_models: model.optimize() raises.
BM_OptimizeRaises ==
    /\ pc = "bm_optimize"
    /\ rng' = rng
    /\ Raise("optimize")

\* benchmark_models: y_mean, y_var = model.predict(x_test)
BM_Predict ==
    /\ pc = "bm_predict"
    /\ models' = [models EXCEPT ![k].predicted = @ + 1]
    /\ y_mean' = predict_mean(models[k], Y, x_test)
    /\ y_var' = predict_var(models[k], x_test)
    /\ trace' = Append(trace, Event("predict", models[k].name))
    /\ pc' = "bm_record"
    /\ UNCHANGED <<rng, nb_metrics, table, cells_run, do_benchmark_locals, data_locals,
                   bm_metrics, k, gd_log, run_log, seen>>

\* benchmark_models: model.predict(x_test) raises.
BM_PredictRaises ==
    /\ pc = "bm_predict"
    /\ rng' = rng
    /\ Raise("predict")

\* benchmark_models predicting with the next model without fitting it.
BM_Record_SkipOptimize ==
    /\ pc = "bm_record"
    /\ bm_metrics' = dict_set(bm_metrics, record_key(models[k]),
                              calculate_metrics(y_test, y_mean, y_var))
    /\ trace' = Append(trace, Event("record", models[k].name))
    /\ IF k < Len(models)
       THEN k' = k + 1 /\ pc' = "bm_predict"
       ELSE k' = k /\ pc' = "bm_return"
    /\ UNCHANGED <<rng, nb_metrics, table, cells_run, do_benchmark_locals, data_locals,
                   models, y_mean, y_var, gd_log, run_log, seen>>

\* benchmark_models: metrics[model.name] = calculate_metrics(...); the loop
\* goes on to the next model, or ends.
BM_Record ==
    /\ pc = "bm_record"
    /\ bm_metrics' = dict_set(bm_metrics, record_key(models[k]),
                              calculate_metrics(y_test, y_mean, y_var))
    /\ trace' = Append(trace, Event("record", models[k].name))
    /\ IF k < Len(models)
       THEN k' = k + 1 /\ pc' = "bm_optimize"
       ELSE k' = k /\ pc' = "bm_return"
    /\ UNCHANGED <<rng, nb_metrics, table, cells_run, do_benchmark_locals, data_locals,
                   models, y_mean, y_var, gd_log, run_log, seen>>

\* benchmark_models and test_function return; do_benchmark stores the result:
\* metrics[run_name] = test_function(fcn_tuple, seed)
TF_Return ==
    /\ pc = "bm_return"
    /\ metrics' = dict_set(metrics, name_of_run, bm_metrics)
    /\ run_log' = Append(run_log, bm_metrics)
    /\ DropCallee
    /\ pc' = "db_print"
    /\ UNCHANGED <<rng, nb_metrics, table, cells_run, fcn_tuple, i, name_of_run,
                   gd_log, trace, seen>>

\* do_benchmark: print('After ' + str(i+1) + ' runs of ...'); print_metrics(metrics)
DB_Print ==
    /\ pc = "db_print"
    /\ table' = print_metrics(metrics)
    /\ trace' = Append(trace, Event("print", i + 1))
    /\ i' = i + 1
    /\ pc' = "db_for"
    /\ UNCHANGED <<rng, nb_metrics, cells_run, fcn_tuple, metrics, name_of_run,
                   data_locals, benchmark_models_locals, gd_log, run_log, seen>>

Next ==
    \/ \E f \in Registry : RunCell(f)
    \/ DB_Iterate
    \/ DB_Return
    \/ TF_Seed
    \/ GD_Sample
    \/ GD_Scalings
    \/ GD_ScaleX
    \/ GD_Evaluate
    \/ GD_ScaleY
    \/ GD_Test
    \/ TF_BuildModels
    \/ \E n \in 1..MaxDraws : BM_Optimize(n)
    \/ BM_OptimizeRaises
    \/ BM_Predict
    \/ BM_PredictRaises
    \/ BM_Record
    \/ TF_Return
    \/ DB_Print

Spec == Init /\ [][Next]_vars

(***************************************************************************)
(* Properties.                                                             *)
(***************************************************************************)
\* The kernel is inside do_benchmark.
InBenchmark == pc \notin {"idle", "raised"}

\* generate_data has just returned to test_function.
Returns == pc = "tf_models"

\* The decimal digits of the five seeds, as the notebook writes them.
SeedDigits == <<<<"1","2","3">>, <<"1","8","4">>, <<"2","0","2">>,
                <<"2","8","9">>, <<"7","3","2">>>>

\* The names the four adapters carry when they are benchmarked.
ModelNames == <<"hf_gp", "ar1", "nargp", "mf_dgp_fix_lf_mean">>

\* Entry n of a dict of runs is the n-th seed's: its key starts with the
\* seed's digits followed by the list's bracket, its value is what the n-th
\* call of test_function returned.
RunsInOrder(d) ==
    \A n \in 1..Len(d) :
        /\ n <= Len(seeds)
        /\ SubSeq(d[n].k, 1, Len(SeedDigits[n])) = SeedDigits[n]
        /\ d[n].k[Len(SeedDigits[n]) + 1] = "["
        /\ d[n].v = run_log[n]

\* C1: the dict do_benchmark returns holds exactly five entries, one per seed
\* in the order of the seeds list; the run keys of different seeds differ for
\* every function of the registry, so no run overwrites another, and after
\* the i-th iteration the dict holds exactly i entries.
C1_FiveRunsNoOverwrite ==
    /\ pc = "db_for" =>
          \A a, b \in 1..Len(seeds) :
             a # b => run_name(seeds[a], fcn_tuple) # run_name(seeds[b], fcn_tuple)
    /\ (InBenchmark /\ pc # "db_print") => Len(metrics) = i
    /\ pc = "db_print" => Len(metrics) = i + 1
    /\ pc \in {"db_print", "db_for"} => RunsInOrder(metrics)
    /\ (pc = "idle" /\ cells_run > 0) =>
          /\ Len(nb_metrics) = 1
          /\ Len(nb_metrics[1]) = 5
          /\ RunsInOrder(nb_metrics[1])

C1_Witness == pc = "idle" /\ cells_run > 0 /\ Len(nb_metrics) = 1

\* A per-run result holds one record for each of the first n models, filed
\* under the model's name in list order, each with the keys r2, rmse, mnll.
RecordsOfFirst(d, n) ==
    /\ Len(d) = n
    /\ \A m \in 1..n :
          /\ d[m].k = ModelNames[m]
          /\ DOMAIN d[m].v = {"r2", "rmse", "mnll"}

\* C2: every per-run result holds exactly one record for each of the four
\* models, each record with exactly the keys r2, rmse and mnll; while
\* benchmark_models runs, the records of the models already processed are
\* all present (none is overwritten by a later model's).
C2_OneRecordPerModel ==
    /\ pc \in {"bm_optimize", "bm_predict", "bm_record"} =>
          RecordsOfFirst(bm_metrics, k - 1)
    /\ pc = "bm_return" => RecordsOfFirst(bm_metrics, 4)
    /\ pc = "db_print" =>
          /\ \A n \in 1..Len(run_log) : RecordsOfFirst(run_log[n], 4)
          /\ \A n \in 1..Len(metrics) : RecordsOfFirst(metrics[n].v, 4)
    /\ pc = "idle" =>
          \A c \in 1..Len(nb_metrics) :
             /\ Len(nb_metrics[c]) = Len(seeds)
             /\ \A n \in 1..Len(nb_metrics[c]) : RecordsOfFirst(nb_metrics[c][n].v, 4)

C2_Witness == pc = "idle" /\ Len(run_log) = 5 /\ Len(nb_metrics) = 1

\* The n-th step of a do_benchmark call that runs to its end.  A seed's run
\* is: seed, generate_data, then optimize, predict, record for each of the
\* four models in list order, then the printing of the table.
StepsPerSeed == 2 + 3 * 4 + 1

ExpectedStep(n) ==
    LET s == (n - 1) \div StepsPerSeed + 1
        o == (n - 1) % StepsPerSeed
        m == (o - 2) \div 3 + 1
    IN  IF o = 0 THEN Event("seed", seeds[s])
        ELSE IF o = 1 THEN Event("generate_data", seeds[s])
        ELSE IF o = StepsPerSeed - 1 THEN Event("print", s)
        ELSE IF (o - 2) % 3 = 0 THEN Event("optimize", ModelNames[m])
        ELSE IF (o - 2) % 3 = 1 THEN Event("predict", ModelNames[m])
        ELSE Event("record", ModelNames[m])

\* The steps are the first steps of a do_benchmark call that runs to its end.
InOrder(steps) ==
    /\ Len(steps) <= StepsPerSeed * Len(seeds)
    /\ \A n \in 1..Len(steps) : steps[n] = ExpectedStep(n)

\* The steps taken so far, without the exception that ended them.
StepsTaken ==
    IF Len(trace) > 0 /\ trace[Len(trace)].ev = "raise"
    THEN SubSeq(trace, 1, Len(trace) - 1)
    ELSE trace

\* Once an exception of optimize() or predict() has left do_benchmark: the
\* exception is the last thing that happened, nothing was appended to the
\* notebook-level list, no frame of do_benchmark is left, and the steps before
\* it were each taken once, in order.
Halted ==
    /\ nb_metrics = <<>>
    /\ fcn_tuple = None /\ metrics = None /\ models = None /\ bm_metrics = None
    /\ Len(trace) > 0 /\ trace[Len(trace)].ev = "raise"
    /\ InOrder(StepsTaken)
    /\ Len(StepsTaken) < StepsPerSeed * Len(seeds)
    /\ ExpectedStep(Len(StepsTaken) + 1).ev = trace[Len(trace)].arg

\* C3: an exception raised by optimize() or predict() is never caught: it
\* appears in the history only as the last event, with the kernel halted,
\* do_benchmark's frames gone and nothing appended to the notebook-level
\* list; and from the halted state no further step of the run is taken (no
\* retry, no later model, no later seed).
C3_NoRecovery ==
    /\ [](\A n \in 1..Len(trace) :
             trace[n].ev = "raise" => (n = Len(trace) /\ pc = "raised"))
    /\ [](pc = "raised" => Halted)
    /\ [][pc # "raised"]_vars

C3_Witness ==
    /\ pc = "raised"
    /\ Len(run_log) = 2
    /\ trace[Len(trace)].arg = "predict"
    /\ Len(StepsTaken) = 2 * StepsPerSeed + 2 + 3 + 1

\* Sum of a short list, left to right.
RECURSIVE SumLeft(_)
SumLeft(l) == IF Len(l) = 0 THEN FZero
              ELSE FAdd(SumLeft(SubSeq(l, 1, Len(l) - 1)), l[Len(l)])

ArithmeticMean(l) == FDiv(SumLeft(l), FromInt(Len(l)))

\* Metric name of model ModelNames[m] in a run's result.
MetricOf(run, m, name) ==
    run[CHOOSE n \in 1..Len(run) : run[n].k = ModelNames[m]].v[name]

\* The table of the running averages over the given runs: one row per model,
\* the columns r2, mnll, rmse.
AverageTable(runs) ==
    [m \in 1..4 |->
        <<ModelNames[m],
          ArithmeticMean([r \in 1..Len(runs) |-> MetricOf(runs[r], m, "r2")]),
          ArithmeticMean([r \in 1..Len(runs) |-> MetricOf(runs[r], m, "mnll")]),
          ArithmeticMean([r \in 1..Len(runs) |-> MetricOf(runs[r], m, "rmse")])>>]

\* C4: after the i-th seed has been processed the table printed last has one
\* row per model, and each value is the arithmetic mean of that model's
\* metric over exactly the i runs completed so far.
C4_RunningAverage ==
    /\ (pc = "db_for" /\ i >= 1) => table = AverageTable(run_log) /\ Len(run_log) = i
    /\ (InBenchmark /\ pc # "db_for" /\ i >= 1) =>
          table # None /\ Len(table) = 4 /\ Len(run_log) \in {i, i + 1}
    /\ (pc = "idle" /\ cells_run > 0) => table = AverageTable(run_log)

C4_Witness ==
    /\ pc = "db_for"
    /\ i = 3
    /\ Len(run_log) = 3
    /\ run_log[1] # run_log[2]
    /\ table # AverageTable(SubSeq(run_log, 3, 3))

\* A row without its last column.
Front(row) == SubSeq(row, 1, Len(row) - 1)

\* C5: every test input carries one extra last column holding the highest
\* fidelity index len(num_data) - 1, and the test target is the output of the
\* highest-fidelity function (the last of fcn.f) at that input (scaled back),
\* divided by y_scale, with no noise; the index in the column is the index of
\* that function.
C5_TestFidelity ==
    Returns =>
        /\ Len(x_test) = NTestPoints
        /\ Len(y_test) = NTestPoints
        /\ NumFidelities(fcn_tuple) - 1 = Len(fcn_tuple.num_data) - 1
        /\ \A j \in 1..Len(x_test) :
              /\ Len(x_test[j]) = Dim + 1
              /\ x_test[j][Dim + 1] = FromInt(Len(fcn_tuple.num_data) - 1)
              /\ y_test[j] =
                    FDiv(TestFunction(Len(fcn_tuple.num_data) - 1,
                             [d \in 1..Dim |-> FMul(x_test[j][d], scalings[d])]),
                         FromInt(fcn_tuple.y_scale))

C5_Witness ==
    /\ Returns
    /\ fcn_tuple.name = "branin"
    /\ x_test[1][Dim + 1] = FromInt(2)

\* C6 (the claim as stated): every training output is the function value
\* divided by y_scale plus the noise level times a standard normal variate.
C6_AdditiveNoise ==
    pc = "gd_test" =>
        \A n \in 1..Len(Y) : \A j \in 1..Len(Y[n]) :
            Y[n][j] = FAdd(FDiv(gd_log.f_out[n][j], FromInt(fcn_tuple.y_scale)),
                           FMul(fcn_tuple.noise_level[n], gd_log.eps[n][j]))

Ones == [d \in 1..Dim |-> FromInt(1)]

\* |a - b| <= 3 * 2^-Precision * |b|: a is b up to the rounding of one
\* division and one multiplication.
WithinRounding(a, b) ==
    LET e  == IF a[2] < b[2] THEN a[2] ELSE b[2]
        ma == a[1] * Pow2(a[2] - e)
        mb == b[1] * Pow2(b[2] - e)
    IN  Abs(ma - mb) * Pow2(Precision) <= 3 * Abs(mb)

RowsWithinRounding(x, y) ==
    /\ Len(x) = Len(y)
    /\ \A r \in 1..Len(x) : \A d \in 1..Dim : WithinRounding(x[r][d], y[r][d])

\* One scaling vector, computed from the lowest fidelity's samples as drawn
\* (or ones), divides every fidelity's inputs and the test inputs, and the
\* functions receive the scaled inputs times that vector.  Each part is
\* stated of the state right after the statement that computes it, and of
\* the state generate_data returns in.
OneScaling ==
    /\ pc \in {"gd_scale_x", "tf_models"} =>
          scalings = IF fcn_tuple.do_x_scaling THEN np_std_axis0(gd_log.drawn[1])
                     ELSE Ones
    /\ pc \in {"gd_evaluate", "tf_models"} =>
          \A n \in 1..Len(X) : X[n] = divide_rows(gd_log.drawn[n], scalings)
    /\ pc \in {"gd_scale_y", "tf_models"} =>
          \A n \in 1..Len(X) : gd_log.f_args[n] = multiply_rows(X[n], scalings)
    /\ Returns =>
          /\ \A j \in 1..Len(x_test) :
                Front(x_test[j]) = divide_rows(gd_log.drawn_test, scalings)[j]
          /\ gd_log.f_args_test =
                multiply_rows([j \in 1..Len(x_test) |-> Front(x_test[j])], scalings)

\* C7 (the claim as stated): every function evaluation receives exactly the
\* sample that was drawn.
C7_RoundTripExact ==
    /\ OneScaling
    /\ Returns => gd_log.f_args = gd_log.drawn /\ gd_log.f_args_test = gd_log.drawn_test

\* C7 (amended): one scaling vector as above; without input scaling the
\* returned inputs and the functions' arguments are exactly the drawn
\* samples; with input scaling the functions' arguments are the drawn samples
\* up to the rounding of the division and the multiplication.
C7_RoundTripRounded ==
    /\ OneScaling
    /\ (Returns /\ ~fcn_tuple.do_x_scaling) =>
          /\ X = gd_log.drawn
          /\ gd_log.f_args = gd_log.drawn
          /\ gd_log.f_args_test = gd_log.drawn_test
          /\ \A j \in 1..Len(x_test) : Front(x_test[j]) = gd_log.drawn_test[j]
    /\ (Returns /\ fcn_tuple.do_x_scaling) =>
          /\ \A n \in 1..Len(X) : RowsWithinRounding(gd_log.f_args[n], gd_log.drawn[n])
          /\ RowsWithinRounding(gd_log.f_args_test, gd_log.drawn_test)

C7_Witness ==
    /\ Returns
    /\ fcn_tuple.do_x_scaling
    /\ scalings # Ones
    /\ gd_log.f_args # gd_log.drawn

\* C8: within a seed's run the generator is seeded and the data generated
\* before any model exists; the models are processed one at a time in list
\* order, each optimized exactly once, then predicted with exactly once, then
\* recorded, before the next model starts; a seed's run starts only after the
\* previous seed's table has been printed.
C8_Sequential ==
    /\ InOrder(StepsTaken)
    /\ pc = "gd_sample" => rng = seed % RngModulus
    /\ pc \in {"tf_seed", "gd_sample", "gd_scalings", "gd_scale_x", "gd_evaluate",
               "gd_scale_y", "gd_test", "tf_models"} => models = None
    /\ pc \in {"bm_optimize", "bm_predict", "bm_record", "bm_return"} =>
          \A m \in 1..Len(models) :
             LET done == IF m < k \/ pc = "bm_return" THEN 1 ELSE 0
             IN  /\ models[m].optimized =
                       IF m = k /\ pc \in {"bm_predict", "bm_record"} THEN 1 ELSE done
                 /\ models[m].predicted =
                       IF m = k /\ pc = "bm_record" THEN 1 ELSE done

C8_Witness == pc = "idle" /\ Len(trace) = 75 /\ trace[75] = Event("print", 5)

\* C9: for every function of the registry generate_data yields one
\* input/output pair per fidelity level, with num_data[i] rows each, and
\* every fidelity's outputs are scaled: the registry gives as many noise
\* levels as sample counts, so the zip skips none.
C9_OnePairPerFidelity ==
    /\ \A f \in Registry : Len(f.noise_level) = Len(f.num_data)
    /\ Returns =>
          /\ Len(X) = Len(fcn_tuple.num_data)
          /\ Len(Y) = Len(fcn_tuple.num_data)
          /\ Len(gd_log.eps) = Len(fcn_tuple.num_data)
          /\ \A n \in 1..Len(fcn_tuple.num_data) :
                /\ Len(X[n]) = fcn_tuple.num_data[n]
                /\ Len(Y[n]) = fcn_tuple.num_data[n]
                /\ \A r \in 1..Len(X[n]) : Len(X[n][r]) = Dim
                /\ \A j \in 1..Len(Y[n]) :
                      Y[n][j] = FDiv(gd_log.f_out[n][j],
                                     FAdd(FromInt(fcn_tuple.y_scale),
                                          FMul(fcn_tuple.noise_level[n],
                                               gd_log.eps[n][j])))

C9_Witness ==
    /\ Returns
    /\ fcn_tuple.name = "borehole"
    /\ Len(Y) = 2
    /\ Len(Y[2]) = 5
    /\ Y[2] # gd_log.f_out[2]

\* C10: test_function called again with the function and a seed of the
\* first run of the cell generates the data it generated then, whatever
\* state the global generator was in before the call.
C10_SeedDeterminism ==
    (Returns /\ cells_run >= 2 /\ fcn_tuple.name = seen.fcn) =>
        /\ Len(seen.data) = Len(seeds)
        /\ Returned = seen.data[i + 1]

\* The second call for the first seed: in the first run the generator was in
\* one of its start-up states before the call, now it is not.
C10_Witness ==
    /\ Returns
    /\ cells_run = 2
    /\ fcn_tuple.name = seen.fcn
    /\ i = 0
    /\ gd_log.rng_fresh = FALSE
    /\ Returned = seen.data[1]
====
